---- MODULE Spec2Model ----
(***************************************************************************)
(* Model of the two shopping-cart programs of the repository:              *)
(*   online_shopping_cart.cpp      the menu-driven program  (prog = "menu")*)
(*   online_shopping_cart_adv.cpp  Inventory / ShoppingCart / Order /      *)
(*                                 Payment classes and the statements of   *)
(*                                 its main            (prog = "adv")      *)
(*                                 and each public member function called  *)
(*                                 on its own          (prog = "api")      *)
(* The menu program is modelled as its read-eval loop: one action per menu *)
(* choice.  The adv program takes no input, so its classes are modelled as *)
(* they are used by its main: each statement pattern of main is one action *)
(* whose literal arguments are drawn from small sets, and the statements   *)
(* may run in any order.                                                   *)
(* Prices are doubles in the source; every price used here is a multiple   *)
(* of 0.5, so prices are kept exactly as integers in cents.                *)
(***************************************************************************)
EXTENDS Integers, Sequences, FiniteSets, TLC

VARIABLES
    prog,          \* which program runs: "menu" or "adv"
    pc,            \* menu: "loop" | "exit" ;  adv: "main"
    products,      \* menu: main's vector<Product> products
    inv,           \* adv : Inventory::products (unordered_map<int, Product>)
    cart,          \* ShoppingCart::items (vector<CartItem>)
    orderCounter,  \* Order::orderCounter (menu) / Order::nextOrderId (adv)
    orders,        \* history: every Order object constructed so far
    last,          \* history: the last operation, its arguments and result
    obj,           \* api : a Product object held by the caller
    listed         \* api : the vector returned by the call of listAll just made

vars == <<prog, pc, products, inv, cart, orderCounter, orders, last, obj, listed>>

(***************************************************************************)
(* Bounds of the model (the adv statements can repeat for ever).           *)
(***************************************************************************)
MaxCart == 1
MaxOrders == 2
MaxStock == 1      \* api: increaseStock is not called above this stock

(***************************************************************************)
(* Product                                                                 *)
(***************************************************************************)
Product(i, n, p, s) == [id |-> i, name |-> n, price |-> p, stock |-> s]

\* reduceStock without its "qty > stock" test
reduceStockNoStockTest(p, qty) ==
    IF qty <= 0 THEN [ok |-> FALSE, product |-> p]
    ELSE [ok |-> TRUE, product |-> [p EXCEPT !.stock = p.stock - qty]]

\* reduceStock with "qty >= stock" in place of "qty > stock"
reduceStockKeepsOne(p, qty) ==
    IF qty <= 0 THEN [ok |-> FALSE, product |-> p]
    ELSE IF qty >= p.stock THEN [ok |-> FALSE, product |-> p]
    ELSE [ok |-> TRUE, product |-> [p EXCEPT !.stock = p.stock - qty]]

\* bool Product::reduceStock(int qty): the result and the object afterwards
reduceStock(p, qty) ==
    IF qty <= 0 THEN [ok |-> FALSE, product |-> p]
    ELSE IF qty > p.stock THEN [ok |-> FALSE, product |-> p]
    ELSE [ok |-> TRUE, product |-> [p EXCEPT !.stock = p.stock - qty]]

(***************************************************************************)
(* CartItem, ShoppingCart                                                  *)
(***************************************************************************)
\* CartItem(p, q) : product(p), quantity(q)  -- product is a copy
CartItem(p, q) == [product |-> p, quantity |-> q]

\* subtotal of a CartItem that refers to the catalog's product (const Product&
\* member) in place of holding its own copy
subtotalOfReference(ci) ==
    IF ci.product.id \in DOMAIN inv
    THEN inv[ci.product.id].price * ci.quantity
    ELSE ci.product.price * ci.quantity

\* double CartItem::subtotal()
subtotal(ci) == ci.product.price * ci.quantity

RECURSIVE SumSubtotals(_, _)
SumSubtotals(items, i) ==
    IF i > Len(items) THEN 0
    ELSE subtotal(items[i]) + SumSubtotals(items, i + 1)

\* double ShoppingCart::total()
total(items) == SumSubtotals(items, 1)

\* addToCart that adds the quantity to an entry of the same product, when the
\* cart has one, in place of appending
addToCartMerging(items, p, q) ==
    IF \E i \in DOMAIN items : items[i].product.id = p.id
    THEN LET i == CHOOSE j \in DOMAIN items : items[j].product.id = p.id
         IN  [items EXCEPT ![i].quantity = items[i].quantity + q]
    ELSE Append(items, CartItem(p, q))

\* ShoppingCart::addItem (menu) / ShoppingCart::addToCart (adv)
addToCart(items, p, q) == Append(items, CartItem(p, q))

(***************************************************************************)
(* Order: id = ++counter, items copied, amount summed                      *)
(***************************************************************************)
\* id = orderCounter++ in place of ++orderCounter
OrderPostIncrement(its, counter) ==
    [id |-> counter, items |-> its, amount |-> SumSubtotals(its, 1)]

Order(its, counter) ==
    [id |-> counter + 1, items |-> its, amount |-> SumSubtotals(its, 1)]

(***************************************************************************)
(* Payment                                                                 *)
(***************************************************************************)
\* menu: CardPayment::pay, PayPalPayment::pay (pm = 1: card, else PayPal)
payMenu(pm, amount) == TRUE

\* pay without its test of the account identifier
payAlwaysSucceeds(pmt, amount) == TRUE

\* adv: CreditCardPayment::pay, PayPalPayment::pay
payAdv(pmt, amount) ==
    IF pmt.kind = "CreditCard" THEN pmt.cardNumber # ""
    ELSE pmt.accountEmail # ""

CreditCardPayment(card, name) ==
    [kind |-> "CreditCard", cardNumber |-> card, nameOnCard |-> name,
     accountEmail |-> ""]
PayPalPayment(email) ==
    [kind |-> "PayPal", cardNumber |-> "", nameOnCard |-> "",
     accountEmail |-> email]

(***************************************************************************)
(* Inputs                                                                  *)
(***************************************************************************)
MenuIds == {1, 3, 4}              \* 4 is no product id
MenuQtys == {-1, 0, 3, 5}
MenuPms == {1, 2}
AdvProducts ==
    { Product(1, "Mouse", 1500, 2), Product(1, "Mouse", 2500, 2),
      Product(1, "Mouse", -100, -1) }
AdvIds == {1, 2}                  \* 2 is never stored
AdvReduceQtys == {0, 1, 3}
AdvCartQtys == {0, 2}
AdvPayments ==
    { CreditCardPayment("1234", "Alice"), CreditCardPayment("", "Alice"),
      PayPalPayment("alice@mail.com"), PayPalPayment("") }

NoProducts == << >>
NoInventory == [i \in {} |-> Product(0, "", 0, 0)]

Op(o, i, q, r, p) == [op |-> o, id |-> i, qty |-> q, ok |-> r, pay |-> p]

(***************************************************************************)
(* The menu program                                                        *)
(***************************************************************************)
\* vector<Product> products = { ... } of main
MenuSeed ==
    << Product(1, "Book", 1050, 10),
       Product(2, "Pen", 250, 20),
       Product(3, "Laptop", 80000, 5) >>

InitMenu ==
    /\ prog = "menu"
    /\ pc = "loop"
    /\ products = MenuSeed
    /\ inv = NoInventory
    /\ cart = << >>
    /\ orderCounter = 0
    /\ orders = << >>
    /\ last = Op("start", 0, 0, FALSE, "none")

\* the loop with "p.getStock() >= q" in place of "p.reduceStock(q)": the stock
\* is tested and not reduced
RECURSIVE AddLoopNoReduce(_, _, _, _, _)
AddLoopNoReduce(i, prods, items, id, q) ==
    IF i > Len(prods) THEN [products |-> prods, cart |-> items, added |-> FALSE]
    ELSE IF prods[i].id = id /\ q > 0 /\ prods[i].stock >= q
         THEN [AddLoopNoReduce(i + 1, prods, addToCart(items, prods[i], q), id, q)
                  EXCEPT !.added = TRUE]
         ELSE AddLoopNoReduce(i + 1, prods, items, id, q)

\* the loop without its "p.getId()==id" test
RECURSIVE AddLoopAnyProduct(_, _, _, _, _)
AddLoopAnyProduct(i, prods, items, id, q) ==
    IF i > Len(prods) THEN [products |-> prods, cart |-> items, added |-> FALSE]
    ELSE IF reduceStock(prods[i], q).ok
         THEN LET p == reduceStock(prods[i], q).product
              IN  [AddLoopAnyProduct(i + 1, [prods EXCEPT ![i] = p],
                                     addToCart(items, p, q), id, q)
                      EXCEPT !.added = TRUE]
         ELSE AddLoopAnyProduct(i + 1, prods, items, id, q)

\* for(auto &p:products){ if(p.getId()==id && p.reduceStock(q)) cart.addItem(p,q); }
RECURSIVE AddLoop(_, _, _, _, _)
AddLoop(i, prods, items, id, q) ==
    IF i > Len(prods) THEN [products |-> prods, cart |-> items, added |-> FALSE]
    ELSE IF prods[i].id = id /\ reduceStock(prods[i], q).ok
         THEN LET p == reduceStock(prods[i], q).product
                  rest == AddLoop(i + 1, [prods EXCEPT ![i] = p],
                                  addToCart(items, p, q), id, q)
              IN  [rest EXCEPT !.added = TRUE]
         ELSE AddLoop(i + 1, prods, items, id, q)

\* choice 1 (showVector) and choice 3 (viewCart): output only
MenuShow ==
    /\ prog = "menu" /\ pc = "loop"
    /\ last' = Op("show", 0, 0, TRUE, "none")
    /\ UNCHANGED <<obj, listed, prog, pc, products, inv, cart, orderCounter, orders>>

\* choice 2
MenuAdd(id, q) ==
    /\ prog = "menu" /\ pc = "loop"
    /\ LET r == AddLoop(1, products, cart, id, q)
       IN  /\ products' = r.products
           /\ cart' = r.cart
           /\ last' = Op("add", id, q, r.added, "none")
    /\ UNCHANGED <<obj, listed, prog, pc, inv, orderCounter, orders>>

\* choice 4 with an Order whose items member refers to one vector shared by
\* all orders (overwritten at each checkout) in place of its own copy
MenuCheckoutSharedItems(pm) ==
    /\ prog = "menu" /\ pc = "loop"
    /\ IF cart = << >>
       THEN /\ last' = Op("checkout", 0, 0, FALSE, "none")
            /\ UNCHANGED <<cart, orderCounter, orders>>
       ELSE /\ orders' = Append([k \in DOMAIN orders |->
                                   [orders[k] EXCEPT !.items = cart]],
                                Order(cart, orderCounter))
            /\ orderCounter' = orderCounter + 1
            /\ cart' = << >>
            /\ last' = Op("checkout", 0, 0, TRUE, "success")
    /\ UNCHANGED <<obj, listed, prog, pc, products, inv>>

\* choice 4
MenuCheckout(pm) ==
    /\ prog = "menu" /\ pc = "loop"
    /\ IF cart = << >>
       THEN /\ last' = Op("checkout", 0, 0, FALSE, "none")
            /\ UNCHANGED <<cart, orderCounter, orders>>
       ELSE IF payMenu(pm, total(cart))
       THEN /\ orders' = Append(orders, Order(cart, orderCounter))
            /\ orderCounter' = orderCounter + 1
            /\ cart' = << >>
            /\ last' = Op("checkout", 0, 0, TRUE, "success")
       ELSE /\ last' = Op("checkout", 0, 0, FALSE, "failure")
            /\ UNCHANGED <<cart, orderCounter, orders>>
    /\ UNCHANGED <<obj, listed, prog, pc, products, inv>>

\* any other choice
MenuExit ==
    /\ prog = "menu" /\ pc = "loop"
    /\ pc' = "exit"
    /\ last' = Op("exit", 0, 0, TRUE, "none")
    /\ UNCHANGED <<obj, listed, prog, products, inv, cart, orderCounter, orders>>

(***************************************************************************)
(* The adv program                                                         *)
(***************************************************************************)
InitAdv ==
    /\ prog = "adv"
    /\ pc = "main"
    /\ products = NoProducts
    /\ inv = NoInventory
    /\ cart = << >>
    /\ orderCounter = 0
    /\ orders = << >>
    /\ last = Op("start", 0, 0, FALSE, "none")

\* addProduct written with insert(): an id already stored keeps its product
addProductInsertOnly(m, p) ==
    IF p.id \in DOMAIN m THEN m
    ELSE [i \in (DOMAIN m) \cup {p.id} |-> IF i = p.id THEN p ELSE m[i]]

\* void Inventory::addProduct(const Product &p) { products[p.getId()] = p; }
addProduct(m, p) ==
    [i \in (DOMAIN m) \cup {p.id} |-> IF i = p.id THEN p ELSE m[i]]

hasProduct(m, id) == id \in DOMAIN m

\* Inventory::reduceStock that reduces and always reports success
invReduceStockAlwaysTrue(m, id, qty) ==
    IF id \notin DOMAIN m THEN [ok |-> FALSE, products |-> m]
    ELSE [ok |-> TRUE,
          products |-> [m EXCEPT ![id] = reduceStock(m[id], qty).product]]

\* bool Inventory::reduceStock(int id, int qty): the result and the map afterwards
invReduceStock(m, id, qty) ==
    IF ~hasProduct(m, id) THEN [ok |-> FALSE, products |-> m]
    ELSE [ok |-> reduceStock(m[id], qty).ok,
          products |-> [m EXCEPT ![id] = reduceStock(m[id], qty).product]]

\* inv.addProduct(Product(...));
AddProduct(p) ==
    /\ prog = "adv"
    /\ inv' = addProduct(inv, p)
    /\ last' = Op("addProduct", p.id, 0, TRUE, "none")
    /\ UNCHANGED <<obj, listed, prog, pc, products, cart, orderCounter, orders>>

\* inv.reduceStock(id, qty);
InvReduceStock(id, qty) ==
    /\ prog = "adv"
    /\ inv' = invReduceStock(inv, id, qty).products
    /\ last' = Op("invReduceStock", id, qty, invReduceStock(inv, id, qty).ok, "none")
    /\ UNCHANGED <<obj, listed, prog, pc, products, cart, orderCounter, orders>>

\* cart.addToCart(inv.getProduct(id), qty);  getProduct throws when id is absent
AddToCartAdv(id, qty) ==
    /\ prog = "adv"
    /\ Len(cart) < MaxCart
    /\ IF hasProduct(inv, id)
       THEN /\ cart' = addToCart(cart, inv[id], qty)
            /\ last' = Op("addToCart", id, qty, TRUE, "none")
       ELSE /\ cart' = cart
            /\ last' = Op("addToCart", id, qty, FALSE, "none")
    /\ UNCHANGED <<obj, listed, prog, pc, products, inv, orderCounter, orders>>

\* the same statement with the test of pay's result dropped
CheckoutAdvNoGate(pmt) ==
    /\ prog = "adv"
    /\ orderCounter < MaxOrders
    /\ orders' = Append(orders, Order(cart, orderCounter))
    /\ orderCounter' = orderCounter + 1
    /\ last' = IF payAdv(pmt, total(cart))
               THEN Op("checkout", 0, 0, TRUE, "success")
               ELSE Op("checkout", 0, 0, FALSE, "failure")
    /\ UNCHANGED <<obj, listed, prog, pc, products, inv, cart>>

\* if(payment->pay(cart.total())){ Order o(cart.getItems()); o.printSummary(); }
CheckoutAdv(pmt) ==
    /\ prog = "adv"
    /\ payAdv(pmt, total(cart)) => orderCounter < MaxOrders
    /\ IF payAdv(pmt, total(cart))
       THEN /\ orders' = Append(orders, Order(cart, orderCounter))
            /\ orderCounter' = orderCounter + 1
            /\ last' = Op("checkout", 0, 0, TRUE, "success")
       ELSE /\ last' = Op("checkout", 0, 0, FALSE, "failure")
            /\ UNCHANGED <<orderCounter, orders>>
    /\ UNCHANGED <<obj, listed, prog, pc, products, inv, cart>>

(***************************************************************************)
(* Specification                                                           *)
(***************************************************************************)
\* Product(): the default arguments of the constructor
DefaultProduct == Product(0, "", 0, 0)

Init ==
    /\ InitMenu \/ InitAdv
    /\ obj = DefaultProduct
    /\ listed = << >>

Next ==
    \/ MenuShow
    \/ \E id \in MenuIds, q \in MenuQtys : MenuAdd(id, q)
    \/ \E pm \in MenuPms : MenuCheckout(pm)
    \/ MenuExit
    \/ \E p \in AdvProducts : AddProduct(p)
    \/ \E id \in AdvIds, qty \in AdvReduceQtys : InvReduceStock(id, qty)
    \/ \E id \in AdvIds, qty \in AdvCartQtys : AddToCartAdv(id, qty)
    \/ \E pmt \in AdvPayments : CheckoutAdv(pmt)

Spec == Init /\ [][Next]_vars

(***************************************************************************)
(* The public member functions of the adv program's Product, Inventory and *)
(* Payment classes, each called on its own by a caller that holds one      *)
(* Product object (obj) and the Inventory instance.  A throwing call leaves*)
(* the caller with what it had.                                            *)
(***************************************************************************)
\* setPrice without its "p<0" test
setPriceUnchecked(p, x) == [threw |-> FALSE, product |-> [p EXCEPT !.price = x]]

\* void Product::setPrice(double p)
setPrice(p, x) ==
    IF x < 0 THEN [threw |-> TRUE, product |-> p]
    ELSE [threw |-> FALSE, product |-> [p EXCEPT !.price = x]]

\* void Product::setStock(int s)
setStock(p, x) ==
    IF x < 0 THEN [threw |-> TRUE, product |-> p]
    ELSE [threw |-> FALSE, product |-> [p EXCEPT !.stock = x]]

\* void Product::increaseStock(int qty)
increaseStock(p, qty) ==
    IF qty > 0 THEN [p EXCEPT !.stock = p.stock + qty] ELSE p

\* getProduct written with products[id] in place of find: an absent id yields
\* a default Product and no exception
getProductDefault(m, id) ==
    IF id \notin DOMAIN m THEN [threw |-> FALSE, product |-> DefaultProduct]
    ELSE [threw |-> FALSE, product |-> m[id]]

\* Product Inventory::getProduct(int id) const: the copy returned, or the
\* ShopException("Product not found") thrown
getProduct(m, id) ==
    IF id \notin DOMAIN m THEN [threw |-> TRUE, product |-> DefaultProduct]
    ELSE [threw |-> FALSE, product |-> m[id]]

\* the orders in which the unordered_map may be iterated
IterationOrders(m) ==
    { f \in [1..Cardinality(DOMAIN m) -> DOMAIN m] :
        \A i, j \in DOMAIN f : i # j => f[i] # f[j] }

\* std::sort(out.begin(), out.end(), by id): insertion of x into a sorted seq
InsertById(sorted, x) ==
    LET k == Cardinality({i \in DOMAIN sorted : sorted[i].id < x.id})
    IN  SubSeq(sorted, 1, k) \o <<x>> \o SubSeq(sorted, k + 1, Len(sorted))

RECURSIVE SortById(_)
SortById(seq) ==
    IF seq = << >> THEN << >>
    ELSE InsertById(SortById(SubSeq(seq, 1, Len(seq) - 1)), seq[Len(seq)])

\* listAll without its sort
listAllUnsorted(m, order) == [i \in DOMAIN order |-> m[order[i]]]

\* vector<Product> Inventory::listAll() const, the map iterated in `order`
listAll(m, order) == SortById([i \in DOMAIN order |-> m[order[i]]])

ApiCtorArgs == { Product(1, "Mouse", 1500, 1), Product(2, "Keyboard", -100, -1) }
ApiPrices == {-100, 1500}
ApiStocks == {-1, 0}
ApiQtys == {0, 1}
ApiIds == {1, 2, 3}               \* 3 is never stored
ApiAmounts == {0, 3000}
NoPayment == PayPalPayment("")

ApiOp(o, i, q, r, t, pm) ==
    [op |-> o, id |-> i, qty |-> q, ok |-> r, pay |-> "none", threw |-> t,
     pmt |-> pm]

InitApi ==
    /\ prog = "api"
    /\ pc = "main"
    /\ products = NoProducts
    /\ inv = NoInventory
    /\ cart = << >>
    /\ orderCounter = 0
    /\ orders = << >>
    /\ obj = DefaultProduct
    /\ listed = << >>
    /\ last = ApiOp("start", 0, 0, FALSE, FALSE, NoPayment)

ApiFrame == UNCHANGED <<prog, pc, products, cart, orderCounter, orders>>

\* Product p(i, n, price, stock);
Construct(p) ==
    /\ obj' = p
    /\ last' = ApiOp("construct", p.id, 0, TRUE, FALSE, NoPayment)
    /\ listed' = << >>
    /\ UNCHANGED inv /\ ApiFrame

\* p.setPrice(x);
SetPrice(x) ==
    /\ obj' = setPrice(obj, x).product
    /\ last' = ApiOp("setPrice", obj.id, x, ~setPrice(obj, x).threw,
                     setPrice(obj, x).threw, NoPayment)
    /\ listed' = << >>
    /\ UNCHANGED inv /\ ApiFrame

\* p.setStock(x);
SetStock(x) ==
    /\ obj' = setStock(obj, x).product
    /\ last' = ApiOp("setStock", obj.id, x, ~setStock(obj, x).threw,
                     setStock(obj, x).threw, NoPayment)
    /\ listed' = << >>
    /\ UNCHANGED inv /\ ApiFrame

\* p.reduceStock(qty);
ReduceStock(qty) ==
    /\ obj' = reduceStock(obj, qty).product
    /\ last' = ApiOp("reduceStock", obj.id, qty, reduceStock(obj, qty).ok,
                     FALSE, NoPayment)
    /\ listed' = << >>
    /\ UNCHANGED inv /\ ApiFrame

\* p.increaseStock(qty);
IncreaseStock(qty) ==
    /\ obj.stock + qty <= MaxStock
    /\ obj' = increaseStock(obj, qty)
    /\ last' = ApiOp("increaseStock", obj.id, qty, TRUE, FALSE, NoPayment)
    /\ listed' = << >>
    /\ UNCHANGED inv /\ ApiFrame

\* inv.addProduct(p);
ApiAddProduct ==
    /\ inv' = addProduct(inv, obj)
    /\ last' = ApiOp("addProduct", obj.id, 0, TRUE, FALSE, NoPayment)
    /\ listed' = << >>
    /\ UNCHANGED obj /\ ApiFrame

\* p = inv.getProduct(id);
ApiGetProduct(id) ==
    /\ obj' = IF getProduct(inv, id).threw THEN obj
              ELSE getProduct(inv, id).product
    /\ last' = ApiOp("getProduct", id, 0, ~getProduct(inv, id).threw,
                     getProduct(inv, id).threw, NoPayment)
    /\ listed' = << >>
    /\ UNCHANGED inv /\ ApiFrame

\* inv.reduceStock(id, qty);
ApiInvReduceStock(id, qty) ==
    /\ inv' = invReduceStock(inv, id, qty).products
    /\ last' = ApiOp("invReduceStock", id, qty, invReduceStock(inv, id, qty).ok,
                     FALSE, NoPayment)
    /\ listed' = << >>
    /\ UNCHANGED obj /\ ApiFrame

\* inv.listAll();
ApiListAll(order) ==
    /\ listed' = listAll(inv, order)
    /\ last' = ApiOp("listAll", 0, 0, TRUE, FALSE, NoPayment)
    /\ UNCHANGED <<obj, inv>> /\ ApiFrame

\* payment->pay(amount);
ApiPay(pmt, amount) ==
    /\ last' = ApiOp("pay", 0, amount, payAdv(pmt, amount), FALSE, pmt)
    /\ listed' = << >>
    /\ UNCHANGED <<obj, inv>> /\ ApiFrame

\* the menu program's payment objects: pay->pay(amount);
ApiPayMenu(pm, amount) ==
    /\ last' = ApiOp("payMenu", pm, amount, payMenu(pm, amount), FALSE, NoPayment)
    /\ listed' = << >>
    /\ UNCHANGED <<obj, inv>> /\ ApiFrame

NextApi ==
    \/ \E p \in ApiCtorArgs : Construct(p)
    \/ \E x \in ApiPrices : SetPrice(x)
    \/ \E x \in ApiStocks : SetStock(x)
    \/ \E q \in ApiQtys : ReduceStock(q)
    \/ \E q \in ApiQtys : IncreaseStock(q)
    \/ ApiAddProduct
    \/ \E id \in ApiIds : ApiGetProduct(id)
    \/ \E id \in ApiIds, q \in ApiQtys : ApiInvReduceStock(id, q)
    \/ \E order \in IterationOrders(inv) : ApiListAll(order)
    \/ \E pmt \in AdvPayments, a \in ApiAmounts : ApiPay(pmt, a)
    \/ \E pm \in MenuPms, a \in ApiAmounts : ApiPayMenu(pm, a)

SpecApi == InitApi /\ [][NextApi]_vars

(***************************************************************************)
(* Properties                                                              *)
(***************************************************************************)
IsCheckout == last.op = "checkout"

NonNegative(p) == p.price >= 0 /\ p.stock >= 0

\* every product held in the cart is well formed and every quantity positive
CartWellFormed ==
    \A i \in DOMAIN cart : NonNegative(cart[i].product) /\ cart[i].quantity > 0

\* C1: a checkout of a non-empty cart whose payment fails leaves the cart's
\* items as they were, does not advance the order counter, constructs no
\* Order and changes no product's stock.
C1_FailedPaymentChangesNothing ==
    [][ (IsCheckout' /\ last'.pay = "failure" /\ cart # << >>)
        => /\ cart' = cart
           /\ orderCounter' = orderCounter
           /\ orders' = orders
           /\ products' = products
           /\ inv' = inv ]_vars

C1_Witness == IsCheckout /\ last.pay = "failure" /\ cart # << >>

\* C2: a checkout of a non-empty cart whose payment succeeds constructs
\* exactly one new Order, with the cart's items and the cart's total, and
\* leaves the cart empty.  (Stated for a well-formed cart.)
C2_SuccessMakesOrderAndClearsCart ==
    [][ (IsCheckout' /\ last'.pay = "success" /\ cart # << >> /\ CartWellFormed)
        => /\ Len(orders') = Len(orders) + 1
           /\ SubSeq(orders', 1, Len(orders)) = orders
           /\ orders'[Len(orders')].items = cart
           /\ orders'[Len(orders')].amount = total(cart)
           /\ cart' = << >> ]_vars

\* C3: the k-th Order constructed has id k: ids start at 1, have no gaps
\* and are never shared, whatever else happened in between.
C3_OrderIdsSequential ==
    /\ Len(orders) = orderCounter
    /\ \A k \in 1..Len(orders) : orders[k].id = k

C3_Witness == Len(orders) >= 2 /\ IsCheckout /\ ~last.ok

\* The authoritative catalog, by product id: the menu program's vector, the
\* adv program's Inventory.
Catalog ==
    IF prog = "menu"
    THEN [id \in {products[i].id : i \in DOMAIN products} |->
            products[CHOOSE i \in DOMAIN products : products[i].id = id]]
    ELSE inv

CartTotal == total(cart)
CartSubtotals == [i \in DOMAIN cart |-> subtotal(cart[i])]

\* a step that called Product::reduceStock(last'.qty) on the catalog's
\* product last'.id
IsReduce == last.op \in {"add", "invReduceStock"} /\ last.id \in DOMAIN Catalog

\* C4: every CartItem (p, q) appended to the cart comes with a successful
\* reduction of the catalog stock of p by q: in the same step, or as the
\* operation just before it.  (Stated for q > 0 and a product in stock, where
\* such a reduction can succeed.)
C4_CartEntryOnlyAfterStockCommitted ==
    [][ (/\ Len(cart') > Len(cart)
         /\ cart'[Len(cart')].quantity > 0
         /\ cart'[Len(cart')].product.stock >= 0)
        => LET ci == cart'[Len(cart')]
               id == ci.product.id
               q == ci.quantity
           IN  \/ /\ id \in DOMAIN Catalog
                  /\ id \in DOMAIN Catalog'
                  /\ q > 0
                  /\ Catalog'[id].stock = Catalog[id].stock - q
               \/ /\ last.op = "invReduceStock" /\ last.ok
                  /\ last.id = id /\ last.qty = q
                  /\ Catalog' = Catalog ]_vars

\* C5: every product of the catalog, of the cart and of every order has
\* price >= 0 and stock >= 0.
C5_PriceAndStockNonNegative ==
    /\ \A id \in DOMAIN Catalog : NonNegative(Catalog[id])
    /\ \A i \in DOMAIN cart : NonNegative(cart[i].product)
    /\ \A k \in DOMAIN orders :
          \A i \in DOMAIN orders[k].items : NonNegative(orders[k].items[i].product)

\* C6: reduceStock(qty) with qty <= 0 or qty > stock returns failure and
\* changes nothing.
C6_ReduceStockFailsSilently ==
    [][ (IsReduce' /\ last'.id \in DOMAIN Catalog
         /\ (last'.qty <= 0 \/ last'.qty > Catalog[last'.id].stock))
        => /\ ~last'.ok
           /\ Catalog' = Catalog
           /\ products' = products
           /\ inv' = inv
           /\ cart' = cart ]_vars

C6_Witness ==
    /\ IsReduce /\ ~last.ok
    /\ last.qty > Catalog[last.id].stock
    /\ last.qty > 0

\* C7: reduceStock(qty) with 0 < qty <= stock returns success and lowers the
\* stock by exactly qty; id, name and price stay.
C7_ReduceStockSucceeds ==
    [][ (IsReduce' /\ last'.id \in DOMAIN Catalog
         /\ 0 < last'.qty /\ last'.qty <= Catalog[last'.id].stock)
        => /\ last'.ok
           /\ DOMAIN Catalog' = DOMAIN Catalog
           /\ Catalog'[last'.id].stock = Catalog[last'.id].stock - last'.qty
           /\ Catalog'[last'.id].id = Catalog[last'.id].id
           /\ Catalog'[last'.id].name = Catalog[last'.id].name
           /\ Catalog'[last'.id].price = Catalog[last'.id].price ]_vars

C7_Witness ==
    /\ IsReduce /\ last.ok
    /\ last.qty > 0
    /\ Catalog[last.id].stock = 0

\* C8: the cart's total is made of the prices copied when the items were added:
\* adding an item raises it by the catalog price at that moment times the
\* quantity, and a later change of the catalog (a product replaced with
\* another price, a stock reduction) changes no subtotal and not the total.
C8_TotalFromCopies ==
    [][ /\ (last'.op \in {"addProduct", "invReduceStock"})
           => /\ cart' = cart
              /\ CartSubtotals' = CartSubtotals
              /\ CartTotal' = CartTotal
        /\ (Len(cart') = Len(cart) + 1)
           => /\ last'.id \in DOMAIN Catalog
              /\ CartTotal' = CartTotal + Catalog[last'.id].price * last'.qty
              /\ CartSubtotals'[Len(cart')] = Catalog[last'.id].price * last'.qty
              /\ \A i \in DOMAIN cart : CartSubtotals'[i] = CartSubtotals[i] ]_vars

C8_Witness ==
    /\ last.op = "addProduct"
    /\ cart # << >>
    /\ cart[1].product.id \in DOMAIN Catalog
    /\ Catalog[cart[1].product.id].price # cart[1].product.price
    /\ cart[1].quantity > 0

C10_QuantityPositive ==
    /\ \A i \in DOMAIN cart :
          NonNegative(cart[i].product) => cart[i].quantity > 0
    /\ \A k \in DOMAIN orders :
          \A i \in DOMAIN orders[k].items : orders[k].items[i].quantity > 0

\* C16: an Order, once constructed, keeps its id, its items and its amount in
\* every later state.
C16_OrdersImmutable ==
    [][ /\ Len(orders') >= Len(orders)
        /\ \A k \in DOMAIN orders :
              /\ orders'[k].id = orders[k].id
              /\ orders'[k].items = orders[k].items
              /\ orders'[k].amount = orders[k].amount ]_vars

C16_Witness ==
    /\ Len(orders) >= 2
    /\ orders[1].items # orders[2].items
    /\ cart # << >>
    /\ last.op \in {"add", "addToCart"} /\ last.ok

\* C18: a successful add appends exactly one CartItem, of the product and the
\* quantity asked for, at the end of the cart; the entries before it stay as
\* they were, also when one of them is of the same product.
C18_AddAppendsOneEntry ==
    [][ (last'.op \in {"add", "addToCart"} /\ last'.ok)
        => /\ Len(cart') = Len(cart) + 1
           /\ SubSeq(cart', 1, Len(cart)) = cart
           /\ cart'[Len(cart')] = CartItem(Catalog'[last'.id], last'.qty) ]_vars

C18_Witness ==
    /\ Len(cart) >= 2
    /\ cart[1].product.id = cart[2].product.id
    /\ last.op = "add" /\ last.ok

RECURSIVE QtyIn(_, _, _)
\* the units of product id in items[i..]
QtyIn(items, id, i) ==
    IF i > Len(items) THEN 0
    ELSE (IF items[i].product.id = id THEN items[i].quantity ELSE 0)
         + QtyIn(items, id, i + 1)

RECURSIVE QtyOrdered(_, _)
\* the units of product id in orders[k..]
QtyOrdered(id, k) ==
    IF k > Len(orders) THEN 0
    ELSE QtyIn(orders[k].items, id, 1) + QtyOrdered(id, k + 1)

\* C19: in the menu program, for each product the catalog stock, the units in
\* the cart and the units in all orders add up to the seeded stock, and the
\* stock is never negative.
C19_StockConservation ==
    prog = "menu"
    => \A i \in DOMAIN MenuSeed :
          /\ Len(products) = Len(MenuSeed)
          /\ products[i].id = MenuSeed[i].id
          /\ products[i].stock >= 0
          /\ products[i].stock + QtyIn(cart, MenuSeed[i].id, 1)
                + QtyOrdered(MenuSeed[i].id, 1) = MenuSeed[i].stock

C19_Witness ==
    /\ prog = "menu"
    /\ \E i \in DOMAIN products :
          /\ products[i].stock = 0
          /\ QtyIn(cart, products[i].id, 1) > 0
          /\ QtyOrdered(products[i].id, 1) > 0

\* C20: in the menu program a rejected add-to-cart request (unknown id,
\* quantity <= 0 or quantity above the stock) changes nothing; an accepted one
\* lowers the stock of the one matching product and appends one cart entry.
C20_MenuAddAllOrNothing ==
    [][ (prog = "menu" /\ last'.op = "add")
        => LET id == last'.id
               q == last'.qty
               rejected == \/ id \notin DOMAIN Catalog
                           \/ q <= 0
                           \/ q > Catalog[id].stock
           IN  /\ orderCounter' = orderCounter
               /\ orders' = orders
               /\ IF rejected
                  THEN ~last'.ok /\ cart' = cart /\ products' = products
                  ELSE /\ last'.ok
                       /\ Len(cart') = Len(cart) + 1
                       /\ SubSeq(cart', 1, Len(cart)) = cart
                       /\ products' =
                            [i \in DOMAIN products |->
                               IF products[i].id = id
                               THEN [products[i] EXCEPT !.stock = products[i].stock - q]
                               ELSE products[i]] ]_vars

C20_Witness ==
    /\ prog = "menu" /\ last.op = "add" /\ ~last.ok
    /\ last.id \in DOMAIN Catalog
    /\ last.qty > Catalog[last.id].stock
    /\ Catalog[last.id].stock > 0
    /\ cart # << >>

\* C11: setPrice(x) and setStock(x) with x < 0 throw and leave the product as
\* it was; with x >= 0 they set that one field to x and nothing else.
C11_SettersValidate ==
    [][ /\ (last'.op = "setPrice")
           => /\ inv' = inv
              /\ IF last'.qty < 0
                 THEN last'.threw /\ obj' = obj
                 ELSE ~last'.threw /\ obj' = [obj EXCEPT !.price = last'.qty]
        /\ (last'.op = "setStock")
           => /\ inv' = inv
              /\ IF last'.qty < 0
                 THEN last'.threw /\ obj' = obj
                 ELSE ~last'.threw /\ obj' = [obj EXCEPT !.stock = last'.qty] ]_vars

C11_Witness == last.op = "setPrice" /\ last.threw /\ obj.price > 0 /\ obj.stock > 0

\* C12: the vector listAll returns has exactly one entry per stored id, each
\* equal to the stored product, in strictly ascending order of id, in whatever
\* order the products were added and the map is iterated.
C12_ListAllSorted ==
    last.op = "listAll"
    => /\ Len(listed) = Cardinality(DOMAIN inv)
       /\ {listed[i].id : i \in DOMAIN listed} = DOMAIN inv
       /\ \A i \in DOMAIN listed : listed[i] = inv[listed[i].id]
       /\ \A i, j \in DOMAIN listed : i < j => listed[i].id < listed[j].id

C12_Witness == last.op = "listAll" /\ Len(listed) = 2

\* C13: Inventory::reduceStock(id, qty) returns false and changes nothing for
\* an absent id; for a stored id it returns what Product::reduceStock returns
\* on the stored product and changes at most that product's stock.
C13_InventoryReduceStock ==
    [][ (prog = "api" /\ last'.op = "invReduceStock")
        => LET id == last'.id
               q == last'.qty
           IN  /\ obj' = obj
               /\ IF id \notin DOMAIN inv
                  THEN ~last'.ok /\ inv' = inv
                  ELSE /\ last'.ok = (0 < q /\ q <= inv[id].stock)
                       /\ DOMAIN inv' = DOMAIN inv
                       /\ \A i \in DOMAIN inv : i # id => inv'[i] = inv[i]
                       /\ inv'[id] = [inv[id] EXCEPT !.stock =
                                        IF last'.ok THEN inv[id].stock - q
                                        ELSE inv[id].stock] ]_vars

C13_Witness ==
    /\ last.op = "invReduceStock" /\ last.ok
    /\ Cardinality(DOMAIN inv) = 2

\* C14: addProduct(p) stores p under p's id, inserting or replacing, and leaves
\* every other id as it was; a second addProduct(p) right after changes nothing.
C14_AddProductUpsert ==
    [][ (prog = "api" /\ last'.op = "addProduct")
        => /\ DOMAIN inv' = DOMAIN inv \cup {obj.id}
           /\ inv'[obj.id] = obj
           /\ \A i \in DOMAIN inv : i # obj.id => inv'[i] = inv[i]
           /\ (last.op = "addProduct" => inv' = inv) ]_vars

C14_Witness ==
    /\ last.op = "addProduct"
    /\ Cardinality(DOMAIN inv) = 2
    /\ \E i \in DOMAIN inv : inv[i] \notin ApiCtorArgs

\* C15: getProduct(id) returns a copy of the stored product for a stored id and
\* throws for an absent one, the catalog unchanged in both cases; changing
\* the copy afterwards does not change the catalog.
C15_GetProductCopies ==
    [][ /\ (last'.op = "getProduct")
           => /\ inv' = inv
              /\ IF last'.id \in DOMAIN inv
                 THEN ~last'.threw /\ obj' = inv[last'.id]
                 ELSE last'.threw /\ obj' = obj
        /\ (last'.op \in {"construct", "setPrice", "setStock", "reduceStock",
                          "increaseStock"})
           => inv' = inv ]_vars

C15_Witness ==
    /\ last.op = "setPrice" /\ ~last.threw
    /\ obj.id \in DOMAIN inv
    /\ inv[obj.id].price # obj.price
    /\ inv[obj.id].stock = obj.stock

\* C17: pay(amount) of a CreditCardPayment fails exactly when the card number
\* is empty, of the adv PayPalPayment exactly when the account email is empty;
\* the menu program's payments have no identifier and succeed; for every
\* amount, and pay changes nothing else.
C17_PayValidatesAccount ==
    [][ /\ (last'.op = "pay")
           => /\ last'.ok = (IF last'.pmt.kind = "CreditCard"
                             THEN last'.pmt.cardNumber # ""
                             ELSE last'.pmt.accountEmail # "")
              /\ UNCHANGED <<products, inv, cart, orderCounter, orders, obj>>
        /\ (last'.op = "payMenu")
           => /\ last'.ok
              /\ UNCHANGED <<products, inv, cart, orderCounter, orders, obj>> ]_vars

C17_Witness ==
    /\ last.op = "pay" /\ ~last.ok
    /\ last.pmt.kind = "PayPal"
    /\ last.qty > 0

====
